---- MODULE Spec2Model ----
(***************************************************************************)
(* State-machine model of the PES canteen payment backend.                 *)
(*                                                                         *)
(* The repository holds ten revisions of one express server (src/server.js *)
(* holds two of them back to back).  Exactly one revision runs in a        *)
(* process; `variant` names it.  Every handler is an async function: the   *)
(* code between two awaits runs atomically on the single JS thread, so     *)
(* each action below is one such segment and `req[r].pc` is the await a    *)
(* request is suspended at.                                                *)
(***************************************************************************)
EXTENDS Integers, FiniteSets, Sequences, TLC

(***************************************************************************)
(* Bounds of the model.                                                    *)
(***************************************************************************)
MaxReq == 2          \* request slots: requests concurrently in flight
MaxSerial == 1       \* request slots of the specifications with few requests in flight
MaxTicks == 1        \* clock steps explored after process start
MaxRepeat == 2       \* repeated deliveries of one webhook payload that are counted
StartTime == 100000  \* Date.now() at process start, in ms
TickMs == 60000      \* clock step, in ms

(***************************************************************************)
(* Program constants.                                                      *)
(***************************************************************************)
SafetyMarginMs == 60000     \* "- 60000" in tokenExpiry
DefaultExpiresIn == 3600    \* "expires_in || 3600"
MsPerSecond == 1000         \* "expiresIn * 1000"
NullExpiry == 0             \* "let tokenExpiry = null": null is 0 in "<" and falsy

VARIABLES
  variant,      \* which revision of the server is running
  now,          \* Date.now()
  accessToken,  \* module-level OAuth token cache
  tokenExpiry,  \* module-level expiry of the cached token
  sdkAvailable, \* server.js (SDK revision): module-level flag
  orders,       \* Firestore collection 'orders': doc id -> document
  req,          \* request slots: the handler invocations in flight
  lastExchange, \* history: the last exchange response and when it arrived
  delivered     \* history: the webhook payload last applied, and how often in a row

vars == <<variant, now, accessToken, tokenExpiry, sdkAvailable, orders, req,
          lastExchange, delivered>>

Req == 1..MaxReq

(***************************************************************************)
(* The revisions.                                                          *)
(***************************************************************************)
Variants == {"server_sdk", "server_v2", "backend_server", "part_000", "part_001",
             "part_002", "part_003", "part_004", "part_005", "part_006"}

\* Revisions that define getAccessToken and the accessToken/tokenExpiry cache.
OAuthVariants == {"server_sdk", "server_v2", "part_000", "part_002", "part_003",
                  "part_004", "part_006"}

\* Revisions whose create-order goes through the PhonePe SDK client.
SdkVariants == {"server_sdk", "part_001"}

\* JS truthiness of the values a token variable can hold.
Truthy(tok) == tok \notin {"null", "undefined"}

(***************************************************************************)
(* Request slots.  A slot holds one handler invocation: its route (kind),  *)
(* the await it is suspended at (pc), its locals, and once it has          *)
(* answered, the HTTP status it sent (code).                               *)
(***************************************************************************)
NoOrderId == 0  \* no order id: req.query.orderId / payload id fields absent

NoPayload == [merchantOrderId |-> NoOrderId, merchantTransactionId |-> NoOrderId,
              code |-> "undefined", status |-> "undefined", state |-> "undefined"]

\* No signature header.
NoSignature == [alg |-> "none", over |-> NoPayload]

Idle == [kind |-> "none", pc |-> "idle", orderId |-> NoOrderId, total |-> 0,
         token |-> "undefined", payload |-> NoPayload, sig |-> NoSignature,
         seen |-> "undefined", obs |-> "undefined", url |-> FALSE,
         fallback |-> FALSE, reply |-> "none", code |-> 0,
         \* history: provider calls and token exchanges this request has sent
         calls |-> 0, fetches |-> 0,
         \* history: signature test passed; token came from the cache; the
         \* stored status when the store write was sent
         verified |-> FALSE, cached |-> FALSE, sent |-> "undefined",
         \* the method field create-order passes to set(); history: the
         \* integration path its provider call went through
         method |-> "undefined", via |-> "none"]

Respond(r, rec, code) ==
  req' = [req EXCEPT ![r] = [rec EXCEPT !.pc = "done", !.code = code]]

\* The awaits on a provider call, and the await on the token exchange.
ProviderAwaits == {"pay", "sdkPay", "query"}

\* The handler has sent a call and awaits it at pc.
Suspend(r, rec, pc) ==
  req' = [req EXCEPT ![r] =
            [rec EXCEPT !.pc = pc,
                        !.calls = IF pc \in ProviderAwaits THEN @ + 1 ELSE @,
                        !.fetches = IF pc = "exchange" THEN @ + 1 ELSE @]]

(***************************************************************************)
(* Credential cache: getAccessToken.                                       *)
(***************************************************************************)
\* A cache test that still serves the token at the instant of its expiry.
CacheValidAtExpiry ==
  Truthy(accessToken) /\ tokenExpiry # NullExpiry /\ now <= tokenExpiry

\* The cache test at the top of getAccessToken.
CacheValid ==
  Truthy(accessToken) /\ tokenExpiry # NullExpiry /\ now < tokenExpiry

\* The margin each revision subtracts from the expiry it stores.
ExpiryMargin(v) == IF v = "server_sdk" THEN 0 ELSE SafetyMarginMs

\* "if (!response.data.access_token) throw": only the V2 revision of server.js.
RejectsMissingToken(v) == v = "server_v2"

\* expiresIn = response.data.expires_in || 3600  (0 is falsy, like undefined)
ExpiresIn(resp) == IF resp.expires_in = 0 THEN DefaultExpiresIn ELSE resp.expires_in

\* tokenExpiry = Date.now() + expiresIn * 1000 - 60000
NewExpiry(v, resp) == now + ExpiresIn(resp) * MsPerSecond - ExpiryMargin(v)

\* Whether getAccessToken throws on this exchange response.
ExchangeThrows(v, resp) ==
  \/ ~resp.ok
  \/ RejectsMissingToken(v) /\ ~Truthy(resp.access_token)

\* The call of getAccessToken by the request in slot r, whose record so far
\* is rec: a valid cached token is returned at once and the caller goes on to
\* `next` (its provider call, already sent); otherwise the exchange call is
\* sent and the caller is suspended on it.
CallGetAccessToken(r, rec, next) ==
  IF CacheValid
  THEN Suspend(r, [rec EXCEPT !.token = accessToken, !.cached = TRUE], next)
  ELSE Suspend(r, rec, "exchange")

\* Cache writes with a suspension point between them: this step writes the
\* token only.
StoreTokenThenSuspend(v, resp) ==
  /\ accessToken' = resp.access_token
  /\ UNCHANGED tokenExpiry

\* The cache writes of getAccessToken on a response it accepts.
StoreToken(v, resp) ==
  /\ accessToken' = resp.access_token
  /\ tokenExpiry' = NewExpiry(v, resp)

\* A catch block that fails closed: it drops the cached token before rethrowing.
TokenFailureClearsCache ==
  /\ accessToken' = "null"
  /\ tokenExpiry' = NullExpiry

\* The catch block of getAccessToken: log and rethrow, the cache untouched.
TokenFailure ==
  UNCHANGED <<accessToken, tokenExpiry>>

\* "accessToken = null; tokenExpiry = null" in the create-order catch block.
InvalidateToken ==
  /\ accessToken' = "null"
  /\ tokenExpiry' = NullExpiry

(***************************************************************************)
(* The order store: db.collection('orders').  A document exists for the    *)
(* ids in DOMAIN orders.                                                   *)
(***************************************************************************)
\* The status a new order document is stored with.
InitialStatus(v) == IF v = "backend_server" THEN "created" ELSE "PENDING"

\* A payload reporting a successful payment.
SuccessPayload(payload) == payload.code = "PAYMENT_SUCCESS"

\* The document create-order stores.  paid and via are history, not stored
\* fields: whether a success webhook has been applied to the document since,
\* and the integration path that created the order.
NewOrder(v, rec) ==
  [status |-> InitialStatus(v), amount |-> rec.total, phonepeCallback |-> NoPayload,
   method |-> rec.method, paid |-> FALSE, via |-> rec.via]

\* The stored status of order id ("undefined" when there is no document).
StatusOf(id) == IF id \in DOMAIN orders THEN orders[id].status ELSE "undefined"

\* doc(id).set(data): creates the document or replaces the one that exists.
StoreSet(id, doc) ==
  orders' = [o \in DOMAIN orders \cup {id} |-> IF o = id THEN doc ELSE orders[o]]

(***************************************************************************)
(* History of webhook deliveries: which payload the store applied last, to *)
(* which order, the status that application left, how many times in a row  *)
(* that payload has been applied with no other write to the order in       *)
(* between, and whether each of those deliveries was answered 200.         *)
(***************************************************************************)
NoDelivery == [id |-> NoOrderId, payload |-> NoPayload, status |-> "undefined",
               n |-> 0, ok |-> TRUE]

\* The webhook in slot r has had its update of order id committed.
RecordDelivery(r, id) ==
  delivered' =
    IF delivered.n > 0 /\ delivered.id = id /\ delivered.payload = req[r].payload
    THEN [delivered EXCEPT !.n = IF @ < MaxRepeat THEN @ + 1 ELSE @,
                           !.ok = @ /\ req'[r].code = 200]
    ELSE [id |-> id, payload |-> req[r].payload, status |-> orders'[id].status,
          n |-> 1, ok |-> req'[r].code = 200]

\* Another handler has written order id.
RecordWrite(id) ==
  delivered' =
    IF delivered.id = id /\ orders'[id] # orders[id] THEN NoDelivery ELSE delivered

(***************************************************************************)
(* Inputs.                                                                 *)
(***************************************************************************)
Totals == {0, 150}

Tokens == {"T1", "T2"}

\* expires_in values (seconds) the provider reports; 0 stands for "absent".
Lifetimes == {0, 60, 120}

\* The exchange call rejected: a non-2xx answer or no answer at all.
NoResponse == [ok |-> FALSE, access_token |-> "undefined", expires_in |-> 0]

ExchangeResponses ==
  [ok : {TRUE}, access_token : Tokens \cup {"undefined"}, expires_in : Lifetimes]
    \cup {NoResponse}

\* Outcomes of POST .../pay: a 2xx body with or without a checkout URL, a
\* rejection with code AUTHORIZATION_FAILED, any other failure.
PayResponses == {"url", "nourl", "unauthorized", "error"}

(***************************************************************************)
(* POST /api/create-order                                                  *)
(***************************************************************************)
\* "if (!items || !total || total <= 0) return res.status(400)"; the HMAC
\* revision (backend/server.js) validates nothing.
ValidatesTotal(v) == v # "backend_server"

\* Whether this create-order takes the SDK path.
UsesSdk(v) == v = "part_001" \/ (v = "server_sdk" /\ sdkAvailable)

\* Whether this create-order authenticates with the OAuth token.
UsesToken(v) == v \in OAuthVariants /\ ~UsesSdk(v)

StartCreate(r, total) ==
  /\ req[r].pc = "idle"
  /\ LET rec == [Idle EXCEPT !.kind = "create", !.orderId = now, !.total = total] IN
       IF ValidatesTotal(variant) /\ total <= 0
       THEN Respond(r, [rec EXCEPT !.orderId = NoOrderId], 400)
       ELSE IF UsesSdk(variant)
       THEN Suspend(r, rec, "sdkPay")
       ELSE IF UsesToken(variant)
       THEN CallGetAccessToken(r, rec, "pay")
       ELSE Suspend(r, rec, "pay")
  /\ UNCHANGED <<variant, now, accessToken, tokenExpiry, sdkAvailable, orders,
                 lastExchange, delivered>>

\* Whether the create-order catch block clears the token cache on a provider
\* rejection coded AUTHORIZATION_FAILED (and answers 401).
InvalidatesOnAuthFailure(v) == v = "part_000"

\* The status the create-order catch block answers a failed POST .../pay with.
ProviderFailureCode(v, resp) ==
  IF resp = "unauthorized" /\ InvalidatesOnAuthFailure(v) THEN 401 ELSE 500

\* The method field of the document, evaluated when set() is called:
\* "method: sdkAvailable ? 'SDK' : 'Manual'" in server.js, a literal in
\* part_002, absent elsewhere.
OrderMethod(v) ==
  CASE v = "server_sdk" -> IF sdkAvailable THEN "SDK" ELSE "Manual"
    [] v = "part_002" -> "Manual API"
    [] OTHER -> "undefined"

\* The provider answers the manual POST .../pay.
PayReturn(r, resp) ==
  /\ req[r].kind = "create" /\ req[r].pc = "pay"
  /\ CASE resp \in {"url", "nourl"} ->
            /\ Suspend(r, [req[r] EXCEPT !.url = (resp = "url"),
                                         !.method = OrderMethod(variant),
                                         !.via = "Manual"], "set")
            /\ UNCHANGED <<accessToken, tokenExpiry>>
       [] resp = "unauthorized" /\ InvalidatesOnAuthFailure(variant) ->
            /\ InvalidateToken
            /\ Respond(r, [req[r] EXCEPT !.reply = resp],
                       ProviderFailureCode(variant, resp))
       [] OTHER ->
            /\ Respond(r, [req[r] EXCEPT !.reply = resp],
                       ProviderFailureCode(variant, resp))
            /\ UNCHANGED <<accessToken, tokenExpiry>>
  /\ UNCHANGED <<variant, now, sdkAvailable, orders, lastExchange, delivered>>

\* phonePeClient.pay(...) of the SDK settles.  In server.js a failure turns
\* the SDK off for later requests and is rethrown.
SdkPayReturn(r, resp) ==
  /\ req[r].kind = "create" /\ req[r].pc = "sdkPay"
  /\ IF resp \in {"url", "nourl"}
     THEN /\ Suspend(r, [req[r] EXCEPT !.url = (resp = "url"),
                                       !.method = OrderMethod(variant),
                                       !.via = "SDK"], "set")
          /\ UNCHANGED sdkAvailable
     ELSE /\ Respond(r, [req[r] EXCEPT !.reply = resp], 500)
          /\ sdkAvailable' = IF variant = "server_sdk" THEN FALSE ELSE sdkAvailable
  /\ UNCHANGED <<variant, now, accessToken, tokenExpiry, orders,
                 lastExchange, delivered>>

\* Whether create-order throws when the response carries no checkout URL.
RequiresCheckoutUrl(v) == v # "backend_server"

\* The store commits doc(orderId).set({... status: 'PENDING' ...}); the
\* handler then extracts the checkout URL and answers.
SetCommit(r) ==
  /\ req[r].kind = "create" /\ req[r].pc = "set"
  /\ StoreSet(req[r].orderId, NewOrder(variant, req[r]))
  /\ Respond(r, req[r],
             IF RequiresCheckoutUrl(variant) /\ ~req[r].url THEN 500 ELSE 200)
  /\ IF req[r].orderId \in DOMAIN orders
     THEN RecordWrite(req[r].orderId) ELSE UNCHANGED delivered
  /\ UNCHANGED <<variant, now, accessToken, tokenExpiry, sdkAvailable,
                 lastExchange>>

(***************************************************************************)
(* The tail of getAccessToken: the exchange call settles and the awaiting  *)
(* handler goes on, or lands in its catch block.                           *)
(***************************************************************************)
\* Routes whose order-status answers with the stored order when the token
\* fetch or the provider query fails (inner try/catch around both).
StatusFallsBackToStore(v) == v \in {"part_000", "part_004", "part_005", "part_006", "part_001"}

ExchangeReturn(r, resp) ==
  /\ req[r].pc = "exchange"
  /\ lastExchange' = [at |-> now, resp |-> resp]
  /\ IF ExchangeThrows(variant, resp)
     THEN /\ TokenFailure
          /\ CASE req[r].kind = "status" /\ StatusFallsBackToStore(variant) ->
                    Respond(r, req[r], 200)
               [] req[r].kind = "status" /\ variant = "part_002" ->
                    Suspend(r, [req[r] EXCEPT !.fallback = TRUE], "get")
               [] OTHER ->
                    Respond(r, req[r], 500)
     ELSE /\ StoreToken(variant, resp)
          /\ LET rec == [req[r] EXCEPT !.token = resp.access_token] IN
               CASE req[r].kind = "create" -> Suspend(r, rec, "pay")
                 [] req[r].kind = "status" -> Suspend(r, rec, "query")
                 [] OTHER -> Respond(r, rec, 200)
  /\ UNCHANGED <<variant, now, sdkAvailable, orders, delivered>>

(***************************************************************************)
(* GET /api/test-token                                                     *)
(***************************************************************************)
HasTokenRoute(v) == v \in {"server_v2", "part_000"}

StartTestToken(r) ==
  /\ req[r].pc = "idle"
  /\ HasTokenRoute(variant)
  /\ LET rec == [Idle EXCEPT !.kind = "token"] IN
       IF CacheValid
       THEN Respond(r, [rec EXCEPT !.token = accessToken, !.cached = TRUE], 200)
       ELSE CallGetAccessToken(r, rec, "exchange")
  /\ UNCHANGED <<variant, now, accessToken, tokenExpiry, sdkAvailable, orders,
                 lastExchange, delivered>>

(***************************************************************************)
(* POST /api/webhook                                                       *)
(***************************************************************************)
\* How each revision authenticates a webhook.
WebhookAuth(v) ==
  CASE v = "part_000" -> "sha256-basic"
    [] v = "backend_server" -> "hmac-sha256"
    [] v = "part_005" -> "sha256-salt"
    [] OTHER -> "none"

\* The digests, as ideal (collision-free) functions of what they are taken over.
\* sha256(WEBHOOK_USER:WEBHOOK_PASS): independent of the body.
BasicAuthHash == [alg |-> "sha256-basic", over |-> NoPayload]

\* signPayload(payload): HMAC-SHA256 of JSON.stringify(payload)
signPayload(payload) == [alg |-> "hmac-sha256", over |-> payload]

\* sha256(base64Response + SALT_KEY) + "###" + SALT_INDEX
XVerify(payload) == [alg |-> "sha256-salt", over |-> payload]

JunkSignature == [alg |-> "junk", over |-> NoPayload]

\* The value the handler compares the signature header with.
ExpectedSignature(v, payload) ==
  CASE WebhookAuth(v) = "sha256-basic" -> BasicAuthHash
    [] WebhookAuth(v) = "hmac-sha256" -> signPayload(payload)
    [] WebhookAuth(v) = "sha256-salt" -> XVerify(payload)
    [] OTHER -> JunkSignature

\* The outcome of the signature test: TRUE when the handler goes on.
SignatureAccepted(v, payload, sig) ==
  WebhookAuth(v) = "none" \/ sig = ExpectedSignature(v, payload)

\* The status a rejected signature is answered with.
SignatureRejectCode(v) == IF v = "backend_server" THEN 400 ELSE 401

\* The order id the handler extracts (NoOrderId when the fields it reads are absent).
WebhookOrderId(v, payload) ==
  CASE v \in {"server_sdk", "server_v2", "part_001", "part_002", "backend_server"} ->
         payload.merchantOrderId
    [] v = "part_000" ->
         IF payload.merchantTransactionId # NoOrderId
         THEN payload.merchantTransactionId ELSE payload.merchantOrderId
    [] OTHER -> payload.merchantTransactionId

\* The answer to a webhook without order id: 400, 200 (update skipped), or
\* 500 (doc(undefined) / payload.data.x throws into the catch block).
MissingIdCode(v) ==
  CASE v \in {"server_sdk", "server_v2", "part_001", "part_002"} -> 400
    [] v \in {"backend_server", "part_005"} -> 500
    [] OTHER -> 200

\* let status = 'PENDING'; if (code === 'PAYMENT_SUCCESS' || status === 'SUCCESS') ...
ThreeWayStatus(payload) ==
  IF payload.code = "PAYMENT_SUCCESS" \/ payload.status = "SUCCESS" THEN "SUCCESS"
  ELSE IF payload.code = "PAYMENT_ERROR" \/ payload.status = "FAILED" THEN "FAILED"
  ELSE "PENDING"

\* The status each revision derives from the payload.
WebhookStatus(v, payload) ==
  CASE v \in {"server_sdk", "server_v2", "part_001", "part_002"} -> ThreeWayStatus(payload)
    [] v \in {"part_000", "part_003"} ->
         IF payload.code = "PAYMENT_SUCCESS" \/ payload.state = "COMPLETED"
         THEN "SUCCESS" ELSE "FAILED"
    [] v = "part_004" -> IF payload.code = "PAYMENTSUCCESS" THEN "SUCCESS" ELSE "FAILED"
    [] v = "backend_server" ->
         IF payload.status = "undefined" THEN "unknown" ELSE payload.status
    [] OTHER -> IF payload.code = "PAYMENT_SUCCESS" THEN "SUCCESS" ELSE "FAILED"

\* The handler up to its await: signature test, id extraction, status
\* mapping, and the update call it sends to the store.
StartWebhook(r, payload, sig) ==
  /\ req[r].pc = "idle"
  /\ LET rec == [Idle EXCEPT !.kind = "webhook", !.payload = payload, !.sig = sig]
         id == WebhookOrderId(variant, payload) IN
       IF ~SignatureAccepted(variant, payload, sig)
       THEN Respond(r, rec, SignatureRejectCode(variant))
       ELSE IF id = NoOrderId
       THEN Respond(r, rec, MissingIdCode(variant))
       ELSE Suspend(r, [rec EXCEPT !.orderId = id,
                                   !.obs = WebhookStatus(variant, payload),
                                   !.verified = WebhookAuth(variant) # "none",
                                   !.sent = StatusOf(id)],
                    "update")
  /\ UNCHANGED <<variant, now, accessToken, tokenExpiry, sdkAvailable, orders, lastExchange, delivered>>

\* Whether a failed store update is swallowed (inner try/catch) and the
\* request still answered 200.
SwallowsStoreError(v, kind) ==
  v = "part_002" \/ (kind = "status" /\ v = "part_001")

\* A transition rule under which a second pending observation fails the order.
StoredStatusPendingExpires(current, obs) ==
  IF current = "PENDING" /\ obs = "PENDING" THEN "FAILED" ELSE obs

\* The status field update({status, ...}) leaves in a document whose status
\* was `current`: the one passed in.
StoredStatus(current, obs) == obs

\* An update written as doc(id).set(fields): the fields it does not name are
\* lost.
UpdateCommitBySet(r) ==
  /\ req[r].pc = "update"
  /\ LET id == req[r].orderId IN
       IF id \in DOMAIN orders
       THEN /\ orders' = [orders EXCEPT
                            ![id].status = StoredStatus(@, req[r].obs),
                            ![id].amount = 0,
                            ![id].phonepeCallback =
                               IF req[r].kind = "webhook" THEN req[r].payload ELSE @,
                            ![id].paid =
                               @ \/ (req[r].kind = "webhook" /\ SuccessPayload(req[r].payload))]
            /\ Respond(r, req[r], 200)
            /\ IF req[r].kind = "webhook"
               THEN RecordDelivery(r, id) ELSE RecordWrite(id)
       ELSE /\ UNCHANGED <<orders, delivered>>
            /\ Respond(r, req[r],
                       IF SwallowsStoreError(variant, req[r].kind) THEN 200 ELSE 500)
  /\ UNCHANGED <<variant, now, accessToken, tokenExpiry, sdkAvailable,
                 lastExchange>>

\* doc(id).update(fields): fails when the document does not exist.
\* The store commits the update a webhook or a status poll sent; the handler
\* then answers.
UpdateCommit(r) ==
  /\ req[r].pc = "update"
  /\ LET id == req[r].orderId IN
       IF id \in DOMAIN orders
       THEN /\ orders' = [orders EXCEPT
                            ![id].status = StoredStatus(@, req[r].obs),
                            ![id].phonepeCallback =
                               IF req[r].kind = "webhook" THEN req[r].payload ELSE @,
                            ![id].paid =
                               @ \/ (req[r].kind = "webhook" /\ SuccessPayload(req[r].payload))]
            /\ Respond(r, req[r], 200)
            /\ IF req[r].kind = "webhook"
               THEN RecordDelivery(r, id) ELSE RecordWrite(id)
       ELSE /\ UNCHANGED <<orders, delivered>>
            /\ Respond(r, req[r],
                       IF SwallowsStoreError(variant, req[r].kind) THEN 200 ELSE 500)
  /\ UNCHANGED <<variant, now, accessToken, tokenExpiry, sdkAvailable,
                 lastExchange>>

\* The store rejects the update (unavailable, deadline exceeded) and leaves
\* the document as it was; the handler's catch block answers.
UpdateFails(r) ==
  /\ req[r].pc = "update"
  /\ Respond(r, [req[r] EXCEPT !.reply = "storeError"],
             IF SwallowsStoreError(variant, req[r].kind) THEN 200 ELSE 500)
  /\ UNCHANGED <<variant, now, accessToken, tokenExpiry, sdkAvailable, orders,
                 lastExchange, delivered>>

(***************************************************************************)
(* GET /api/order-status                                                   *)
(***************************************************************************)
HasStatusRoute(v) == v # "server_sdk"

\* Revisions whose order-status never touches the store.
StatusSkipsStore(v) == v \in {"server_v2", "part_003"}

\* Revisions whose order-status calls the provider before reading the store.
StatusQueriesFirst(v) == v \in {"server_v2", "part_003", "part_002"}

\* Revisions whose order-status writes the provider's status to the store.
StatusRefreshesStore(v) == v \in {"part_001", "part_002"}

\* The provider query of order-status, sent once the token is at hand (the
\* SDK and the salted-hash revisions need no token of ours).
SendQuery(r, rec) ==
  IF variant \in OAuthVariants
  THEN CallGetAccessToken(r, rec, "query")
  ELSE Suspend(r, rec, "query")

StartStatus(r, id) ==
  /\ req[r].pc = "idle"
  /\ HasStatusRoute(variant)
  /\ LET rec == [Idle EXCEPT !.kind = "status", !.orderId = id] IN
       IF id = NoOrderId
       THEN Respond(r, rec, 400)
       ELSE IF StatusQueriesFirst(variant)
       THEN SendQuery(r, rec)
       ELSE Suspend(r, rec, "get")
  /\ UNCHANGED <<variant, now, accessToken, tokenExpiry, sdkAvailable, orders,
                 lastExchange, delivered>>

\* doc(orderId).get() settles.
GetReturn(r) ==
  /\ req[r].kind = "status" /\ req[r].pc = "get"
  /\ LET id == req[r].orderId
         exists == id \in DOMAIN orders
         rec == [req[r] EXCEPT !.seen = IF exists THEN orders[id].status ELSE @] IN
       IF variant = "part_002"
       THEN \* after the provider call: refresh the store, or fall back to it
            IF rec.fallback
            THEN Respond(r, rec, IF exists THEN 200 ELSE 404)
            ELSE IF exists /\ rec.seen # rec.obs /\ rec.obs # "undefined"
            THEN Suspend(r, [rec EXCEPT !.sent = StatusOf(id)], "update")
            ELSE Respond(r, rec, 200)
       ELSE IF ~exists
       THEN Respond(r, rec, 404)
       ELSE IF variant = "backend_server"
       THEN Respond(r, rec, 200)
       ELSE SendQuery(r, rec)
  /\ UNCHANGED <<variant, now, accessToken, tokenExpiry, sdkAvailable, orders,
                 lastExchange, delivered>>

\* What the provider's status endpoint (or the SDK's checkStatus) answers:
\* a status value in the server's vocabulary or in the provider's own
\* (COMPLETED), a 2xx body without one, or a failure.
ProviderStatuses == {"SUCCESS", "FAILED", "PENDING", "COMPLETED", "undefined"}

QueryResponses == ProviderStatuses \cup {"unauthorized", "error"}

QueryReturn(r, resp) ==
  /\ req[r].kind = "status" /\ req[r].pc = "query"
  /\ LET failed == resp \notin ProviderStatuses
         rec == [req[r] EXCEPT !.obs = IF failed THEN @ ELSE resp,
                               !.reply = IF failed THEN resp ELSE @] IN
       CASE StatusSkipsStore(variant) ->
              Respond(r, rec, IF failed THEN 500 ELSE 200)
         [] variant = "part_002" ->
              Suspend(r, [rec EXCEPT !.fallback = failed], "get")
         [] variant = "part_001" /\ ~failed /\ resp # "undefined" /\ resp # rec.seen ->
              Suspend(r, [rec EXCEPT !.sent = StatusOf(rec.orderId)], "update")
         [] OTHER ->
              Respond(r, rec, 200)
  /\ UNCHANGED <<variant, now, accessToken, tokenExpiry, sdkAvailable, orders, lastExchange, delivered>>

(***************************************************************************)
(* Environment.                                                            *)
(***************************************************************************)
\* Time passes.
Tick ==
  /\ now < StartTime + MaxTicks * TickMs
  /\ now' = now + TickMs
  /\ UNCHANGED <<variant, accessToken, tokenExpiry, sdkAvailable, orders, req, lastExchange, delivered>>

\* The response has been sent; the slot takes the next request.
Recycle(r) ==
  /\ req[r].pc = "done"
  /\ req' = [req EXCEPT ![r] = Idle]
  /\ UNCHANGED <<variant, now, accessToken, tokenExpiry, sdkAvailable, orders, lastExchange, delivered>>

\* Order ids a webhook or a poll can name: those of stored orders, those of
\* orders being created, and one the server never issued.
UnknownOrderId == 1

NamedOrderIds ==
  (DOMAIN orders \cup {req[q].orderId : q \in Req} \cup {UnknownOrderId}) \ {NoOrderId}

\* Payloads as the provider sends them for an outcome: naming an order in
\* the id fields the revisions read, or carrying no order id at all.
Outcomes == {[code |-> "PAYMENT_SUCCESS", status |-> "SUCCESS", state |-> "COMPLETED"],
             [code |-> "PAYMENT_ERROR", status |-> "FAILED", state |-> "FAILED"],
             [code |-> "PAYMENT_PENDING", status |-> "PENDING", state |-> "PENDING"]}

Payloads ==
  {[merchantOrderId |-> id, merchantTransactionId |-> id,
    code |-> c.code, status |-> c.status, state |-> c.state] :
     id \in NamedOrderIds \cup {NoOrderId}, c \in Outcomes}

\* Signature headers a sender can attach to a body: none that verifies, the
\* provider's X-VERIFY of the body, and what the running revision expects
\* for this body or for another one.
Signatures(payload) ==
  {JunkSignature, XVerify(payload)}
    \cup {ExpectedSignature(variant, p) : p \in Payloads}

(***************************************************************************)
(* Specifications.                                                         *)
(***************************************************************************)
InitOf(vs) ==
  /\ variant \in vs
  /\ now = StartTime
  /\ accessToken = "null"
  /\ tokenExpiry = NullExpiry
  /\ sdkAvailable \in (IF variant = "server_sdk" THEN BOOLEAN ELSE {FALSE})
  /\ orders = <<>>
  /\ req = [r \in Req |-> Idle]
  /\ lastExchange = [at |-> 0, resp |-> NoResponse]
  /\ delivered = NoDelivery

Init == InitOf(Variants)

InitToken == InitOf(OAuthVariants)

\* A response ends its invocation: the slot is released before the event
\* loop runs the next callback.
Quiet == \A q \in Req : req[q].pc # "done"

\* A new request takes the lowest free slot.
Free(r) == req[r].pc = "idle" /\ \A q \in Req : q < r => req[q].pc # "idle"

\* The exchange responses explored where the order routes are the subject:
\* a token with the default lifetime, or a failure.
OrderExchangeResponses ==
  {[ok |-> TRUE, access_token |-> "T1", expires_in |-> 0], NoResponse}

\* The order routes (create-order, webhook, order-status) with the requests
\* of slots S in flight, at one instant of the clock.
OrderStep(S) ==
  \/ Quiet /\ \E r \in S : Free(r) /\ \E total \in Totals : StartCreate(r, total)
  \/ Quiet /\ \E r \in S, resp \in PayResponses : PayReturn(r, resp)
  \/ Quiet /\ \E r \in S, resp \in PayResponses : SdkPayReturn(r, resp)
  \/ Quiet /\ \E r \in S : SetCommit(r)
  \/ Quiet /\ \E r \in S, resp \in OrderExchangeResponses : ExchangeReturn(r, resp)
  \/ Quiet /\ \E r \in S : Free(r) /\ \E payload \in Payloads :
       \E sig \in Signatures(payload) : StartWebhook(r, payload, sig)
  \/ Quiet /\ \E r \in S : UpdateCommit(r)
  \/ Quiet /\ \E r \in S : UpdateFails(r)
  \/ Quiet /\ \E r \in S : Free(r) /\ \E id \in NamedOrderIds \cup {NoOrderId} :
       StartStatus(r, id)
  \/ Quiet /\ \E r \in S : GetReturn(r)
  \/ Quiet /\ \E r \in S, resp \in QueryResponses : QueryReturn(r, resp)
  \/ \E r \in S : Recycle(r)

\* The routes that obtain the token (create-order, test-token) with the
\* requests of slots S in flight, while time passes.
TokenStep(S) ==
  \/ Quiet /\ \E r \in S : Free(r) /\ \E total \in Totals : StartCreate(r, total)
  \/ Quiet /\ \E r \in S, resp \in PayResponses : PayReturn(r, resp)
  \/ Quiet /\ \E r \in S, resp \in PayResponses : SdkPayReturn(r, resp)
  \/ Quiet /\ \E r \in S : SetCommit(r)
  \/ Quiet /\ \E r \in S, resp \in ExchangeResponses : ExchangeReturn(r, resp)
  \/ Quiet /\ \E r \in S : Free(r) /\ StartTestToken(r)
  \/ Quiet /\ Tick
  \/ \E r \in S : Recycle(r)

Next == OrderStep(Req)

Spec == Init /\ [][Next]_vars

NextSerial == OrderStep(1..MaxSerial)

SpecSerial == Init /\ [][NextSerial]_vars

NextToken == TokenStep(Req)

SpecToken == InitToken /\ [][NextToken]_vars

NextTokenSerial == TokenStep(1..MaxSerial)

SpecTokenSerial == InitToken /\ [][NextTokenSerial]_vars

\* The exchange responses explored where overlapping refreshes are the
\* subject: two tokens, two lifetimes, or a failure.
RefreshResponses ==
  [ok : {TRUE}, access_token : Tokens, expires_in : {60, 120}] \cup {NoResponse}

\* Create-order requests of slots S that refresh the token side by side and
\* whose pay call the provider then rejects, while time passes.
RefreshStep(S) ==
  \/ Quiet /\ \E r \in S : Free(r) /\ \E total \in Totals \ {0} : StartCreate(r, total)
  \/ Quiet /\ \E r \in S, resp \in RefreshResponses : ExchangeReturn(r, resp)
  \/ Quiet /\ \E r \in S, resp \in {"unauthorized", "error"} : PayReturn(r, resp)
  \/ Quiet /\ Tick
  \/ \E r \in S : Recycle(r)

NextRefresh == RefreshStep(1..(MaxSerial + 1))

\* The SDK failed to load at startup: create-order takes the manual path.
InitRefresh == InitToken /\ sdkAvailable = FALSE

SpecRefresh == InitRefresh /\ [][NextRefresh]_vars

\* The provider calls made with a timeout option: POST .../pay of
\* backend/server.js (timeout: 15000) and of part_002 (timeout: 10000).  axios
\* sets no timeout of its own.
HasTimeout(v, pc) == pc = "pay" /\ v \in {"backend_server", "part_002"}

\* The timeout of the provider call that slot r awaits expires: axios rejects
\* and the handler lands in its catch block.
TimedOut(r) ==
  /\ HasTimeout(variant, req[r].pc)
  /\ PayReturn(r, "error")

\* What is bound to happen: the store settles every call, a call made with a
\* timeout settles, a response that has been written is sent.  The provider
\* owes no answer.
Fairness ==
  \A r \in 1..MaxSerial :
    /\ WF_vars(Quiet /\ SetCommit(r))
    /\ WF_vars(Quiet /\ UpdateCommit(r))
    /\ WF_vars(Quiet /\ GetReturn(r))
    /\ WF_vars(Quiet /\ TimedOut(r))
    /\ WF_vars(Recycle(r))

\* The order routes with a provider that may stay silent.
SpecLive == Init /\ [][NextSerial]_vars /\ Fairness

(***************************************************************************)
(* Properties.                                                             *)
(***************************************************************************)
TerminalStatuses == {"SUCCESS", "FAILED"}

\* This step commits the store update that the request in slot r sent, to an
\* order that exists.
Commits(r) ==
  /\ req[r].pc = "update" /\ req'[r].pc = "done"
  /\ req[r].orderId \in DOMAIN orders
  /\ req'[r].reply # "storeError"

\* C1: once the stored status of an order is SUCCESS or FAILED, no later
\* webhook and no later poll-triggered refresh changes it, whatever that
\* observation reports.
C1_TerminalStatusIsFinal ==
  [][\A r \in Req :
       (Commits(r) /\ orders[req[r].orderId].status \in TerminalStatuses)
         => orders'[req[r].orderId].status = orders[req[r].orderId].status]_vars

\* C2: the store update is a compare-and-set on the current status: of two
\* concurrent terminal observations of a PENDING order, the one committed
\* first stays; an observation that was sent while the order was PENDING and
\* commits after another one has made the order terminal does not flip it.
C2_FirstCommittedObservationWins ==
  [][\A r \in Req :
       (/\ Commits(r)
        /\ req[r].sent = "PENDING"
        /\ req[r].obs \in TerminalStatuses
        /\ orders[req[r].orderId].status \in TerminalStatuses)
         => orders'[req[r].orderId].status = orders[req[r].orderId].status]_vars

\* C3: a webhook payload applied to an existing order N >= 1 times in a row
\* leaves the status its first application left, every delivery is answered
\* 200, and two identical success webhooks leave the order at SUCCESS.
C3_RepeatedWebhookIsIdempotent ==
  delivered.n >= 1 =>
    /\ delivered.id \in DOMAIN orders
    /\ orders[delivered.id].status = delivered.status
    /\ delivered.ok
    /\ (delivered.n >= 2 /\ SuccessPayload(delivered.payload))
         => orders[delivered.id].status = "SUCCESS"

\* C4: the store is written on behalf of a webhook only after the signature
\* of that webhook has been verified.
C4_WebhookWritesOnlyWhenVerified ==
  [][\A r \in Req :
       (Commits(r) /\ req[r].kind = "webhook" /\ orders' # orders)
         => req[r].verified]_vars

\* The webhook of record rec carries a body other than the one its signature
\* header was made for.
Tampered(rec) ==
  /\ rec.kind = "webhook"
  /\ WebhookAuth(variant) # "none"
  /\ \E original \in Payloads :
       original # rec.payload /\ rec.sig = ExpectedSignature(variant, original)

\* C5: a webhook whose body was altered after signing, sent with the
\* signature header of the original body, is answered 401 and never gets as
\* far as a store update.
C5_TamperedBodyIsRejected ==
  \A r \in Req :
    Tampered(req[r]) => req[r].pc = "done" /\ req[r].code = 401

\* C6: concurrent getAccessToken callers share one credential exchange: at
\* no time is more than one exchange call in flight.
C6_OneExchangeInFlight ==
  Cardinality({r \in Req : req[r].pc = "exchange"}) <= 1

\* This step is the call of getAccessToken by a new request in slot r.
CallsGetAccessToken(r) ==
  /\ req[r].pc = "idle"
  /\ \/ req'[r].kind = "create" /\ req'[r].pc \in {"pay", "exchange"}
     \/ req'[r].kind = "token" /\ req'[r].pc \in {"done", "exchange"}

\* C7: getAccessToken hands out the cached token, with no exchange call,
\* exactly when a token is cached and the clock is strictly before the
\* stored expiry; in every other case it sends an exchange call.
C7_CacheServedIffBeforeExpiry ==
  [][\A r \in Req :
       CallsGetAccessToken(r) =>
         LET fresh == accessToken \notin {"null", "undefined"} /\ now < tokenExpiry IN
           /\ (req'[r].pc # "exchange") <=> fresh
           /\ (req'[r].pc # "exchange") =>
                req'[r].token = accessToken /\ req'[r].cached]_vars

\* C7, reached: a request holds a token it was handed from the cache, and
\* the clock is before the expiry of that token.
C7_Witness ==
  \E r \in Req :
    /\ req[r].cached /\ req[r].pc \in {"pay", "done"}
    /\ req[r].token = accessToken /\ now < tokenExpiry

\* This step settles the exchange call the request in slot r waits for, and
\* the call was rejected.
ExchangeRejected(r) ==
  /\ req[r].pc = "exchange" /\ req'[r].pc # "exchange"
  /\ ~lastExchange'.resp.ok

\* C8: when the exchange call fails, getAccessToken throws (its caller
\* answers 500) and the cached token and expiry are what they were before.
C8_FailedExchangeLeavesCache ==
  [][\A r \in Req :
       ExchangeRejected(r) =>
         /\ req'[r].pc = "done" /\ req'[r].code = 500
         /\ accessToken' = accessToken
         /\ tokenExpiry' = tokenExpiry]_vars

\* C8, reached: a request has just been answered 500 because its exchange
\* was rejected, while the cache still holds the token of an earlier one.
C8_Witness ==
  \E r \in Req :
    /\ req[r].pc = "done" /\ req[r].code = 500
    /\ req[r].token = "undefined" /\ req[r].reply = "none"
    /\ lastExchange.at > 0 /\ ~lastExchange.resp.ok
    /\ Truthy(accessToken) /\ tokenExpiry # NullExpiry

\* C9: the stored expiry is never later than the time the token was fetched
\* plus the lifetime the provider reported (3600 s when it reported none)
\* minus the 60 s safety margin.
C9_ExpiryKeepsSafetyMargin ==
  (/\ lastExchange.resp.ok
   /\ Truthy(lastExchange.resp.access_token)
   /\ tokenExpiry # NullExpiry)
    => LET lifetime == IF lastExchange.resp.expires_in = 0
                       THEN 3600 ELSE lastExchange.resp.expires_in IN
         tokenExpiry <= lastExchange.at + lifetime * 1000 - 60000

\* C10: when the provider rejects a call as unauthorized, the handler leaves
\* the cache without a usable token, so that the next getAccessToken
\* performs a fresh exchange.
C10_UnauthorizedInvalidatesToken ==
  \A r \in Req :
    (req[r].pc = "done" /\ req[r].reply = "unauthorized")
      => ~(Truthy(accessToken) /\ now < tokenExpiry)

\* The create-order of record rec has been answered after the provider
\* rejected its order-creation call as unauthorized.
RejectedAsUnauthorized(rec) ==
  rec.kind = "create" /\ rec.pc = "done" /\ rec.reply = "unauthorized"

\* C11: a request whose provider call is rejected as unauthorized fetches a
\* fresh token once and repeats the provider call once before it answers
\* with the failure: it has then sent exactly two provider calls.
C11_RetriesOnceAfterAuthFailure ==
  \A r \in Req :
    RejectedAsUnauthorized(req[r]) => req[r].calls = 2 /\ req[r].fetches >= 1

\* The create-order of record rec has been answered after its token exchange
\* failed: it sent an exchange call and never got to a provider call.
TokenExchangeFailed(rec) ==
  rec.kind = "create" /\ rec.pc = "done" /\ rec.fetches >= 1 /\ rec.calls = 0

\* C12: a create-order that fails on the token exchange or on an
\* unauthorized rejection is answered with a status other than the one any
\* other provider failure gets.
C12_AuthFailureHasItsOwnCode ==
  \A r \in Req :
    (TokenExchangeFailed(req[r]) \/ RejectedAsUnauthorized(req[r]))
      => req[r].code # ProviderFailureCode(variant, "error")

\* The create-order of record rec has been answered after the provider
\* failed otherwise: its call was rejected for another reason, or the 2xx
\* response carried no checkout URL.
ProviderFailedOtherwise(rec) ==
  /\ rec.kind = "create" /\ rec.pc = "done" /\ rec.calls >= 1
  /\ rec.reply = "error" \/ (rec.reply = "none" /\ ~rec.url)

\* C13: after a provider failure that is no authorization failure, the
\* create-order has sent one order-creation call and no more, and it answers
\* with an error.
C13_OtherFailureNotRetriedAndSurfaced ==
  \A r \in Req :
    ProviderFailedOtherwise(req[r]) => req[r].calls = 1 /\ req[r].code >= 400

\* C14: a webhook naming an order the store has no record of is answered
\* 400, and the store is left as it was.
C14_UnknownOrderWebhookAnswered400 ==
  [][\A r \in Req :
       (/\ req[r].kind = "webhook" /\ req[r].pc = "update" /\ req'[r].pc = "done"
        /\ req[r].orderId \notin DOMAIN orders)
         => req'[r].code = 400 /\ orders' = orders]_vars

\* The webhook of record rec passed the signature test and carries no order id.
Unattributable(rec) ==
  /\ rec.kind = "webhook"
  /\ SignatureAccepted(variant, rec.payload, rec.sig)
  /\ rec.payload.merchantOrderId = NoOrderId
  /\ rec.payload.merchantTransactionId = NoOrderId

\* C15: a webhook without attributable order id is answered 400 without a
\* store write, and a webhook is answered 200 only when its update was
\* applied to the order it names.
C15_UnattributableWebhookAnswered400 ==
  \A r \in Req :
    /\ Unattributable(req[r]) => req[r].pc = "done" /\ req[r].code = 400
    /\ (req[r].kind = "webhook" /\ req[r].pc = "done" /\ req[r].code = 200)
         => req[r].orderId \in DOMAIN orders

\* C16: an order-status poll for an order id that was never created is
\* answered 404, whatever the provider answers, and creates no record.
C16_UnknownOrderPollAnswered404 ==
  \A r \in Req :
    (/\ req[r].kind = "status" /\ req[r].pc = "done"
     /\ req[r].orderId # NoOrderId
     /\ req[r].orderId \notin DOMAIN orders)
      => req[r].code = 404

\* The poll of record rec has been answered after its token exchange or its
\* provider query failed.
ProviderUnavailable(rec) ==
  /\ rec.kind = "status" /\ rec.pc = "done"
  /\ \/ rec.reply \in {"unauthorized", "error"}
     \/ rec.fetches >= 1 /\ rec.calls = 0

\* C17: a poll for an existing order whose token fetch or provider query
\* failed is answered 200: the failure does not reach the caller.
C17_PollFallsBackToStoredStatus ==
  \A r \in Req :
    (ProviderUnavailable(req[r]) /\ req[r].orderId \in DOMAIN orders)
      => req[r].code = 200

\* The status field of the 200 response of order-status, from the handler's
\* locals: the provider's value, or the stored one it read.
ReportedStatus(v, rec) ==
  CASE StatusSkipsStore(v) -> rec.obs
    [] v = "part_002" -> IF rec.fallback THEN rec.seen ELSE rec.obs
    [] v = "part_001" -> IF rec.obs # "undefined" THEN rec.obs ELSE rec.seen
    [] OTHER -> rec.seen

\* C18: the status a poll reports for an existing order is the status the
\* store holds for that order when the poll answers.
C18_PollReportsStoredStatus ==
  \A r \in Req :
    (/\ req[r].kind = "status" /\ req[r].pc = "done" /\ req[r].code = 200
     /\ req[r].orderId \in DOMAIN orders)
      => ReportedStatus(variant, req[r]) = orders[req[r].orderId].status

\* C19: a create-order whose total is missing or not positive is rejected
\* at once with 400: it fetches no token, calls no provider and writes no
\* order.
C19_InvalidTotalRejected ==
  \A r \in Req :
    (req[r].kind = "create" /\ req[r].total <= 0)
      => /\ req[r].pc = "done" /\ req[r].code = 400
         /\ req[r].calls = 0 /\ req[r].fetches = 0

\* C20: when a create-order answers 200, the store holds a record under the
\* order id it returns, with status PENDING and the amount of the request.
C20_CreatedOrderIsPending ==
  \A r \in Req :
    (req[r].kind = "create" /\ req[r].pc = "done" /\ req[r].code = 200)
      => /\ req[r].orderId \in DOMAIN orders
         /\ orders[req[r].orderId].status = "PENDING"
         /\ orders[req[r].orderId].amount = req[r].total

\* C21: once a success webhook has been applied to an order that create-order
\* stored, the stored status is SUCCESS, and every poll for that order answered
\* from then on is answered 200 with status SUCCESS.
C21_PaidOrderStaysSuccess ==
  \A id \in DOMAIN orders :
    orders[id].paid =>
      /\ orders[id].status = "SUCCESS"
      /\ \A r \in Req :
           (req[r].kind = "status" /\ req[r].pc = "done" /\ req[r].orderId = id)
             => req[r].code = 200 /\ ReportedStatus(variant, req[r]) = "SUCCESS"

\* C22: an order document is created once per order id: two create-order
\* requests in flight never hold the same order id, and a create-order about
\* to store its document finds no document under its id.
C22_OrderIdIssuedOnce ==
  /\ \A r, q \in Req :
       (/\ r # q
        /\ req[r].kind = "create" /\ req[q].kind = "create"
        /\ req[r].orderId # NoOrderId /\ req[q].orderId # NoOrderId)
         => req[r].orderId # req[q].orderId
  /\ \A r \in Req :
       (req[r].kind = "create" /\ req[r].pc = "set")
         => req[r].orderId \notin DOMAIN orders

\* C23: the status a webhook handler derives from a payload is one of three:
\* SUCCESS for a success payload, FAILED for an explicit failure payload, and
\* PENDING for every other payload.
C23_PayloadMapsThreeWays ==
  \A r \in Req :
    (req[r].kind = "webhook" /\ req[r].pc = "update")
      => req[r].obs =
           (CASE req[r].payload.code = "PAYMENT_SUCCESS" -> "SUCCESS"
              [] req[r].payload.code = "PAYMENT_ERROR" -> "FAILED"
              [] OTHER -> "PENDING")

\* C24: the status of every stored order is one of CREATED, PENDING, SUCCESS
\* and FAILED (CREATED in the spelling of the revision that writes it).
C24_StoredStatusIsCanonical ==
  \A id \in DOMAIN orders :
    orders[id].status \in {"CREATED", "created", "PENDING", "SUCCESS", "FAILED"}

\* C25: a canonical observation arriving in a poll response leaves the stored
\* status a webhook carrying that observation leaves: when a refreshing poll
\* has processed the provider's answer, the stored status is what the
\* webhook's update would make of it for that observation.
C25_PollRefreshAppliesWebhookRule ==
  \A r \in Req :
    (/\ req[r].kind = "status" /\ req[r].pc = "done" /\ req[r].code = 200
     /\ StatusRefreshesStore(variant)
     /\ ~req[r].fallback /\ req[r].reply = "none"
     /\ req[r].obs \in {"SUCCESS", "FAILED", "PENDING"}
     /\ req[r].orderId \in DOMAIN orders)
      => orders[req[r].orderId].status
           = StoredStatus(orders[req[r].orderId].status, req[r].obs)

\* C26: a webhook whose payload maps to PENDING, applied to an order whose
\* stored status is PENDING, leaves the stored status PENDING and is answered
\* 200.
C26_PendingOnPendingChangesNothing ==
  [][\A r \in Req :
       (/\ Commits(r)
        /\ req[r].kind = "webhook"
        /\ req[r].obs = "PENDING"
        /\ orders[req[r].orderId].status = "PENDING")
         => /\ orders'[req[r].orderId].status = "PENDING"
            /\ req'[r].code = 200]_vars

\* A pending webhook has been applied to a pending order and answered.
C26_Witness ==
  \E r \in Req :
    /\ req[r].kind = "webhook" /\ req[r].pc = "done" /\ req[r].code = 200
    /\ req[r].obs = "PENDING" /\ req[r].sent = "PENDING"
    /\ req[r].orderId \in DOMAIN orders
    /\ orders[req[r].orderId].status = "PENDING"
    /\ orders[req[r].orderId].phonepeCallback = req[r].payload

\* C27: webhooks and polls leave the fields create-order wrote (the order id,
\* the amount; items, table and sessionId are written and left alone with
\* it) as they are: only a create-order storing its document sets them.
C27_CreationFieldsAreFrozen ==
  [][\A id \in DOMAIN orders :
       \/ id \in DOMAIN orders' /\ orders'[id].amount = orders[id].amount
       \/ \E r \in Req :
            /\ req[r].kind = "create" /\ req[r].pc = "set"
            /\ req[r].orderId = id /\ req'[r].pc = "done"]_vars

\* A webhook or a refreshing poll has written an order of non-zero amount.
C27_Witness ==
  \E r \in Req :
    /\ req[r].kind \in {"webhook", "status"} /\ req[r].pc = "done"
    /\ req[r].code = 200
    /\ req[r].orderId \in DOMAIN orders
    /\ orders[req[r].orderId].status = req[r].obs
    /\ req[r].sent # "undefined" /\ req[r].sent # req[r].obs
    /\ orders[req[r].orderId].amount > 0

\* C28: a webhook applied to an existing order leaves its payload as the
\* order's stored callback payload; when the stored status was already
\* SUCCESS or FAILED it leaves that status as it was.
C28_WebhookRecordedStatusKept ==
  [][\A r \in Req :
       (Commits(r) /\ req[r].kind = "webhook")
         => /\ orders'[req[r].orderId].phonepeCallback = req[r].payload
            /\ orders[req[r].orderId].status \in TerminalStatuses
                 => orders'[req[r].orderId].status = orders[req[r].orderId].status]_vars

\* C30: the integration strategy (SDK or manual calls) chosen at startup stays
\* the one every request uses: no step changes it, and a request that has
\* called the SDK does not go on to the manual token exchange or pay call.
C30_StrategyFixedAtStartup ==
  [][/\ sdkAvailable' = sdkAvailable
     /\ \A r \in Req :
          req[r].pc = "sdkPay" => req'[r].pc \notin {"exchange", "pay"}]_vars

\* C29: every request that has been received is eventually answered, even if
\* the provider never answers the calls made for it.
C29_EveryRequestIsAnswered ==
  \A r \in Req : (req[r].pc # "idle") ~> (req[r].pc = "done")

\* C31: a request that getAccessToken has returned a token to holds a
\* non-empty token, and the cache never holds an expiry without a token.
C31_NoTokenlessCache ==
  /\ tokenExpiry # NullExpiry => Truthy(accessToken)
  /\ \A r \in Req :
       (\/ req[r].pc = "pay"
        \/ req[r].kind = "token" /\ req[r].pc = "done" /\ req[r].code = 200)
         => Truthy(req[r].token)

\* C32: when a create-order request is answered with an error, the store
\* holds no order under the order id that request generated.
C32_FailedCreateStoresNothing ==
  \A r \in Req :
    (/\ req[r].kind = "create" /\ req[r].pc = "done"
     /\ req[r].code # 200
     /\ req[r].orderId # NoOrderId)
      => req[r].orderId \notin DOMAIN orders

\* C33: whenever a success or failure webhook for an existing order that was
\* PENDING when the webhook arrived is answered 200, the stored status of
\* the order is the terminal status the payload maps to.
C33_AcknowledgedWebhookIsStored ==
  \A r \in Req :
    (/\ req[r].kind = "webhook" /\ req[r].pc = "done" /\ req[r].code = 200
     /\ req[r].sent = "PENDING"
     /\ req[r].obs \in TerminalStatuses
     /\ req[r].orderId \in DOMAIN orders)
      => orders[req[r].orderId].status = req[r].obs

\* C34: when a create-order is rejected as unauthorized while the cache holds
\* a token other than the one that request used, the invalidation leaves the
\* cached token and its expiry alone.
C34_InvalidationSparesNewerToken ==
  [][\A r \in Req :
       (/\ req[r].kind = "create" /\ req[r].pc = "pay"
        /\ req'[r].pc = "done" /\ req'[r].reply = "unauthorized"
        /\ Truthy(req[r].token) /\ Truthy(accessToken)
        /\ req[r].token # accessToken)
         => accessToken' = accessToken /\ tokenExpiry' = tokenExpiry]_vars

\* C35: every step that changes the cached token or the cached expiry writes
\* both: either both are cleared, or both come from the exchange response
\* that step received.
C35_TokenAndExpiryFromOneResponse ==
  [][(accessToken' # accessToken \/ tokenExpiry' # tokenExpiry)
       => \/ accessToken' = "null" /\ tokenExpiry' = NullExpiry
          \/ /\ lastExchange'.resp.ok
             /\ lastExchange'.at = now
             /\ accessToken' = lastExchange'.resp.access_token
             /\ tokenExpiry' = NewExpiry(variant, lastExchange'.resp)]_vars

\* Two refreshes overlapped and returned different tokens; the cache holds
\* the token and the expiry of the one that completed last.
C35_Witness ==
  \E r, q \in Req :
    /\ r # q
    /\ req[r].pc = "pay" /\ req[q].pc = "pay"
    /\ ~req[r].cached /\ ~req[q].cached
    /\ Truthy(req[r].token) /\ Truthy(req[q].token)
    /\ req[r].token # req[q].token
    /\ accessToken = req[q].token
    /\ lastExchange.resp.access_token = accessToken
    /\ tokenExpiry = NewExpiry(variant, lastExchange.resp)

\* C36: the method field of a stored order names the integration path its
\* create-order went through: SDK for the SDK client, Manual for the manual
\* pay call.
C36_MethodNamesCreatingPath ==
  \A id \in DOMAIN orders :
    variant = "server_sdk" =>
      orders[id].method = (IF orders[id].via = "SDK" THEN "SDK" ELSE "Manual")
====
